---- MODULE Spec2Model ----
(***************************************************************************)
(* picture-resize-tools: batch image conversion and resizing.              *)
(*                                                                         *)
(*   cmd/process.go      runProcess, validateInputs, getImageFiles,        *)
(*                       separateImageFiles, processImagesConcurrently,    *)
(*                       processImagesWithSameFormat                       *)
(*   internal/processor  ProcessImage, ProcessImageWithSameFormat,         *)
(*                       resizeImage, generateOutputPath, saveImage        *)
(*                                                                         *)
(* The repository carries two builds of cmd/process.go: the one that calls *)
(* validateInputs and sizes the semaphore with the `workers` flag, and the *)
(* one that checks the output format only and sizes the semaphore with the *)
(* literal 4.  The variable `variant` says which build runs.               *)
(***************************************************************************)
EXTENDS Integers, Sequences, FiniteSets, TLC

VARIABLES
    variant,      \* "workers" or "fixed": the build of cmd/process.go that runs
    cfg,          \* the flag-backed globals of cmd/root.go
    env,          \* what the file system answers during the run
    tree,         \* the input directory, as filepath.Walk visits it
    pc,           \* where runProcess is
    files,        \* imageFiles of runProcess
    heicFiles,    \* result of separateImageFiles
    regularFiles, \* result of separateImageFiles
    mode,         \* which scheduler runProcess entered
    batch,        \* the files argument of the scheduler
    next,         \* index of the next file the scheduler's loop spawns
    task,         \* per file of the batch: position of its goroutine
    result,       \* per file of the batch: what the per-file function returned
    calls,        \* per file of the batch: the per-file functions called for it
    sem,          \* number of tokens in the semaphore channel
    wg,           \* counter of the sync.WaitGroup
    outDir,       \* the output directory: "absent", or the files in it
    mkdirs,       \* number of os.MkdirAll calls made so far
    printed,      \* lines runProcess has printed the properties speak of
    rz,           \* resizeImage applied to one image (specification SpecResize)
    pp,           \* the path functions applied to one path (specification SpecPath)
    cl            \* separateImageFiles applied to one list (specification SpecClassify)

runVars == <<variant, cfg, env, tree, pc, files, heicFiles, regularFiles, mode,
             batch, next, task, result, calls, sem, wg, outDir, mkdirs, printed>>
vars == <<runVars, rz, pp, cl>>

(***************************************************************************)
(* float64 arithmetic.  resizeImage divides and multiplies in float64 and  *)
(* truncates to int.  A positive float64 is [exp, frac]: frac holds the 52 *)
(* fraction bits of the significand as four 13-bit limbs, most significant *)
(* first, and the value is (1 + frac / 2^52) * 2^exp.  Division and        *)
(* multiplication round to nearest, ties to even, as IEEE 754 does.  The   *)
(* operands are image and box sizes, far below 2^15, so every intermediate *)
(* value fits TLC's integers.                                              *)
(***************************************************************************)
Limb == 2^13

\* add one unit in the last place when `up`, renormalising on overflow
RoundFrac(exp, frac, up) ==
    IF ~up THEN [exp |-> exp, frac |-> frac]
    ELSE LET c4 == frac[4] + 1
             c3 == frac[3] + (c4 \div Limb)
             c2 == frac[2] + (c3 \div Limb)
             c1 == frac[1] + (c2 \div Limb)
         IN  IF c1 \div Limb = 1
             THEN [exp |-> exp + 1, frac |-> <<0, 0, 0, 0>>]
             ELSE [exp |-> exp,
                   frac |-> <<c1 % Limb, c2 % Limb, c3 % Limb, c4 % Limb>>]

\* scale n/d into [1, 2): n, d and the exponent e with a/b = (n/d) * 2^e
RECURSIVE Normalise(_, _, _)
Normalise(n, d, e) ==
    IF n < d THEN Normalise(2 * n, d, e - 1)
    ELSE IF n >= 2 * d THEN Normalise(n, 2 * d, e + 1)
    ELSE [n |-> n, d |-> d, e |-> e]

\* float64(a) / float64(b) for positive ints a, b
Float64Quo(a, b) ==
    LET nz == Normalise(a, b, 0)
        d  == nz.d
        t1 == (nz.n - d) * Limb
        t2 == (t1 % d) * Limb
        t3 == (t2 % d) * Limb
        t4 == (t3 % d) * Limb
        q4 == t4 \div d
        r  == t4 % d
        up == 2 * r > d \/ (2 * r = d /\ q4 % 2 = 1)
    IN  RoundFrac(nz.e, <<t1 \div d, t2 \div d, t3 \div d, q4>>, up)

\* number of binary digits of n >= 1
BitLen(n) == CHOOSE k \in 1..31 : 2^(k - 1) <= n /\ (k = 31 \/ n < 2^k)

\* float64(h) * f for a positive int h and a positive float64 f
Float64Mul(h, f) ==
    LET t4 == f.frac[4] * h
        t3 == f.frac[3] * h + (t4 \div Limb)
        t2 == f.frac[2] * h + (t3 \div Limb)
        t1 == f.frac[1] * h + (t2 \div Limb)
        top == h + (t1 \div Limb)        \* the exact product is top, then 4 limbs
        s  == BitLen(top) - 1            \* bits to drop to get back to 53
        W  == 2^s
        v1 == (top % W) * Limb + (t1 % Limb)
        v2 == (v1 % W) * Limb + (t2 % Limb)
        v3 == (v2 % W) * Limb + (t3 % Limb)
        v4 == (v3 % W) * Limb + (t4 % Limb)
        n4 == v4 \div W
        r  == v4 % W
        up == s > 0 /\ (2 * r > W \/ (2 * r = W /\ n4 % 2 = 1))
    IN  RoundFrac(f.exp + s, <<v1 \div W, v2 \div W, v3 \div W, n4>>, up)

\* f < g for positive float64 values
Float64Less(f, g) ==
    \/ f.exp < g.exp
    \/ /\ f.exp = g.exp
       /\ \E i \in 1..4 : /\ f.frac[i] < g.frac[i]
                          /\ \A j \in 1..(i - 1) : f.frac[j] = g.frac[j]

\* int(f): truncation toward zero of a positive float64 below 2^27
Float64ToInt(f) ==
    IF f.exp < 0 THEN 0
    ELSE LET e1 == IF f.exp > 13 THEN 13 ELSE f.exp
             e2 == f.exp - e1
             a1 == 2^e1 + (f.frac[1] \div 2^(13 - e1))
         IN  a1 * 2^e2 + (f.frac[2] \div 2^(13 - e2))

(***************************************************************************)
(* resizeImage: the size handed to imaging.Resize, or the image's own size *)
(* when the image is returned as it is.                                    *)
(***************************************************************************)
resizeImage(width, height, maxWidth, maxHeight) ==
    IF width <= maxWidth /\ height <= maxHeight
    THEN [resized |-> FALSE, w |-> width, h |-> height]
    ELSE LET widthScale  == Float64Quo(maxWidth, width)
             heightScale == Float64Quo(maxHeight, height)
             scale       == IF Float64Less(widthScale, heightScale)
                            THEN widthScale ELSE heightScale
         IN  [resized |-> TRUE,
              w |-> Float64ToInt(Float64Mul(width, scale)),
              h |-> Float64ToInt(Float64Mul(height, scale))]

(***************************************************************************)
(* Paths are sequences of one-character strings, so that the string        *)
(* functions of the Go library can be computed on them.                    *)
(***************************************************************************)
Sep == "/"
Dot == "."

UpperCase == <<"A", "B", "C", "D", "E", "F", "G", "H", "I", "J", "K", "L", "M",
               "N", "O", "P", "Q", "R", "S", "T", "U", "V", "W", "X", "Y", "Z">>
LowerCase == <<"a", "b", "c", "d", "e", "f", "g", "h", "i", "j", "k", "l", "m",
               "n", "o", "p", "q", "r", "s", "t", "u", "v", "w", "x", "y", "z">>

\* the lower-case letter of every upper-case letter
Fold ==
    [c \in {UpperCase[k] : k \in 1..26} |->
        LowerCase[CHOOSE k \in 1..26 : UpperCase[k] = c]]

\* strings.ToLower
ToLower(s) ==
    [i \in 1..Len(s) |-> IF s[i] \in DOMAIN Fold THEN Fold[s[i]] ELSE s[i]]

\* s[from:], 0-based as in Go
From(s, from) == SubSeq(s, from + 1, Len(s))

\* strings.TrimSuffix
TrimSuffix(s, suffix) ==
    IF Len(suffix) <= Len(s) /\ From(s, Len(s) - Len(suffix)) = suffix
    THEN SubSeq(s, 1, Len(s) - Len(suffix))
    ELSE s

\* filepath.Ext: from the last dot of the last element on, "" without one
Ext(path) ==
    LET dots == {i \in 1..Len(path) :
                    /\ path[i] = Dot
                    /\ \A j \in i..Len(path) : path[j] # Sep}
    IN  IF dots = {} THEN <<>>
        ELSE SubSeq(path, CHOOSE i \in dots : \A j \in dots : j <= i, Len(path))

\* filepath.Base: the last element, trailing separators removed first
Base(path) ==
    IF path = <<>> THEN <<Dot>>
    ELSE LET ends     == {i \in 1..Len(path) : path[i] # Sep}
             last     == CHOOSE i \in ends : \A j \in ends : j <= i
             stripped == SubSeq(path, 1, last)
             seps     == {i \in 1..last : path[i] = Sep}
             cut      == IF seps = {} THEN 0
                         ELSE CHOOSE i \in seps : \A j \in seps : j <= i
         IN  IF ends = {} THEN <<Sep>> ELSE From(stripped, cut)

\* the elements of a path: its maximal runs without a separator, in order
Elements(path) ==
    LET starts == {i \in 1..Len(path) :
                      path[i] # Sep /\ (i = 1 \/ path[i - 1] = Sep)}
        nth(k) == CHOOSE i \in starts : Cardinality({j \in starts : j < i}) = k - 1
        end(i) == CHOOSE j \in i..Len(path) :
                      /\ \A m \in i..j : path[m] # Sep
                      /\ (j = Len(path) \/ path[j + 1] = Sep)
    IN  [k \in 1..Cardinality(starts) |-> SubSeq(path, nth(k), end(nth(k)))]

\* filepath.Clean, on the elements: "." dropped, ".." taking back an element
RECURSIVE CleanElements(_, _, _)
CleanElements(elems, rooted, out) ==
    IF elems = <<>> THEN out
    ELSE LET e == Head(elems)
             rest == Tail(elems)
         IN  IF e = <<Dot>> THEN CleanElements(rest, rooted, out)
             ELSE IF e = <<Dot, Dot>>
             THEN IF out # <<>> /\ out[Len(out)] # <<Dot, Dot>>
                  THEN CleanElements(rest, rooted, SubSeq(out, 1, Len(out) - 1))
                  ELSE IF rooted THEN CleanElements(rest, rooted, out)
                  ELSE CleanElements(rest, rooted, Append(out, e))
             ELSE CleanElements(rest, rooted, Append(out, e))

RECURSIVE JoinElements(_)
JoinElements(elems) ==
    IF elems = <<>> THEN <<>>
    ELSE IF Len(elems) = 1 THEN elems[1]
    ELSE elems[1] \o <<Sep>> \o JoinElements(Tail(elems))

\* filepath.Clean
Clean(path) ==
    LET rooted == path # <<>> /\ path[1] = Sep
        body   == JoinElements(CleanElements(Elements(path), rooted, <<>>))
        out    == IF rooted THEN <<Sep>> \o body ELSE body
    IN  IF out = <<>> THEN <<Dot>> ELSE out

\* filepath.Join of two elements: empty elements ignored, the result cleaned
Join(a, b) ==
    IF a = <<>> /\ b = <<>> THEN <<>>
    ELSE IF a = <<>> THEN Clean(b)
    ELSE IF b = <<>> THEN Clean(a)
    ELSE Clean(a \o <<Sep>> \o b)

(***************************************************************************)
(* internal/processor: output paths and the encoder.                       *)
(***************************************************************************)
ExtJpg == <<".", "j", "p", "g">>
ExtPng == <<".", "p", "n", "g">>

\* mutant: the name cut at its first dot
generateOutputPath_firstDot(inputPath, outputDir, format) ==
    LET filename == Base(inputPath)
        dots     == {i \in 1..Len(filename) : filename[i] = Dot}
        name     == IF dots = {} THEN filename
                    ELSE SubSeq(filename, 1,
                                (CHOOSE i \in dots : \A j \in dots : i <= j) - 1)
        newExt   == CASE format = "jpg" -> ExtJpg
                      [] format = "png" -> ExtPng
                      [] OTHER -> ExtJpg
    IN  Join(outputDir, name \o newExt)

generateOutputPath(inputPath, outputDir, format) ==
    LET filename == Base(inputPath)
        ext      == Ext(filename)
        name     == TrimSuffix(filename, ext)
        newExt   == CASE format = "jpg" -> ExtJpg
                      [] format = "png" -> ExtPng
                      [] OTHER -> ExtJpg
    IN  Join(outputDir, name \o newExt)

generateOutputPathWithSameFormat(inputPath, outputDir) ==
    Join(outputDir, Base(inputPath))

\* the format ProcessImageWithSameFormat hands to saveImage
sameFormat(inputPath) ==
    IF Ext(ToLower(inputPath)) = ExtPng THEN "png" ELSE "jpg"

\* the encoder saveImage writes the file with
saveEncoder(format) ==
    CASE format = "jpg" -> "jpeg"
      [] format = "png" -> "png"
      [] OTHER -> "jpeg"

(***************************************************************************)
(* The input directory.  A tree lists what lies under the input directory  *)
(* in the order filepath.Walk visits it (each directory before its         *)
(* content, names in lexical order).  rel is the path below the root; a    *)
(* file carries the size of the image in it; a directory may be unreadable.*)
(***************************************************************************)
File(rel, w, h) == [rel |-> rel, dir |-> FALSE, readable |-> TRUE, w |-> w, h |-> h]
Dir(rel, readable) == [rel |-> rel, dir |-> TRUE, readable |-> readable, w |-> 0, h |-> 0]

TreeMixed ==
    << File(<<"a", ".", "H", "E", "I", "C">>, 4000, 3000),
       File(<<"a", ".", "j", "p", "g">>, 800, 600),
       File(<<"n", ".", "t", "x", "t">>, 0, 0),
       Dir(<<"s", "u", "b">>, TRUE),
       File(<<"s", "u", "b", "/", "b", ".", "P", "N", "G">>, 22, 66) >>

TreeRegular ==
    << File(<<"a", ".", "j", "p", "g">>, 4000, 3000),
       File(<<"c", ".", "b", "m", "p">>, 800, 600),
       Dir(<<"s", "u", "b">>, TRUE),
       File(<<"s", "u", "b", "/", "a", ".", "j", "p", "g">>, 22, 66) >>

TreeNoImages ==
    << Dir(<<"d", ".", "p", "n", "g">>, TRUE),
       File(<<"n", ".", "t", "x", "t">>, 0, 0) >>

TreeLocked ==
    << File(<<"a", ".", "j", "p", "g">>, 800, 600),
       Dir(<<"s", "u", "b">>, FALSE) >>

Digits == <<"1", "2", "3", "4", "5", "6", "7", "8", "9">>

\* n images 1.jpg, 2.jpg, ... directly in the input directory
TreePlain(n) ==
    [i \in 1..n |-> File(<<Digits[i]>> \o ExtJpg, 800, 600)]

\* the path Walk hands to walkFunc for an entry: root joined with each element
RECURSIVE JoinAll(_, _)
JoinAll(path, names) ==
    IF names = <<>> THEN path ELSE JoinAll(Join(path, Head(names)), Tail(names))

WalkPath(root, rel) == JoinAll(root, Elements(rel))

\* entry j is a directory above entry i
Above(t, j, i) ==
    /\ t[j].dir
    /\ Len(t[j].rel) < Len(t[i].rel)
    /\ SubSeq(t[i].rel, 1, Len(t[j].rel) + 1) = t[j].rel \o <<Sep>>

ImageExts ==
    { <<".", "h", "e", "i", "c">>, <<".", "h", "e", "i", "f">>,
      <<".", "j", "p", "g">>, <<".", "j", "p", "e", "g">>,
      <<".", "p", "n", "g">>, <<".", "b", "m", "p">>,
      <<".", "t", "i", "f", "f">>, <<".", "t", "i", "f">> }

(***************************************************************************)
(* getImageFiles.  walkFunc is the closure handed to filepath.Walk: it is  *)
(* given an entry and the error Walk met reading it, appends to files, and *)
(* answers "err" (that error, handed back), "skip" (filepath.SkipDir) or   *)
(* "nil".  Walk reads a directory before it calls walkFunc on it, enters   *)
(* it only when walkFunc answers nil, and stops at the first error.        *)
(***************************************************************************)
walkFunc(path, isDir, failed, dir, recursive, found) ==
    IF failed THEN [ret |-> "err", files |-> found]
    ELSE IF ~isDir
    THEN [ret |-> "nil",
          files |-> IF Ext(ToLower(path)) \in ImageExts
                    THEN Append(found, path) ELSE found]
    ELSE IF ~recursive /\ path # dir THEN [ret |-> "skip", files |-> found]
    ELSE [ret |-> "nil", files |-> found]

\* filepath.Walk from entry i on; skipped holds the directories not entered
RECURSIVE Walk(_, _, _, _, _, _)
Walk(t, i, dir, recursive, skipped, found) ==
    IF i > Len(t) THEN [files |-> found, err |-> FALSE]
    ELSE IF \E j \in skipped : Above(t, j, i)
    THEN Walk(t, i + 1, dir, recursive, skipped, found)
    ELSE LET r == walkFunc(WalkPath(dir, t[i].rel), t[i].dir,
                           t[i].dir /\ ~t[i].readable, dir, recursive, found)
         IN  IF r.ret = "err" THEN [files |-> r.files, err |-> TRUE]
             ELSE Walk(t, i + 1, dir, recursive,
                       IF r.ret = "skip" THEN skipped \cup {i} ELSE skipped,
                       r.files)

getImageFiles(dir, recursive, exists, t) ==
    LET root == walkFunc(dir, TRUE, ~exists, dir, recursive, <<>>)
    IN  IF root.ret = "err" THEN [files |-> root.files, err |-> TRUE]
        ELSE Walk(t, 1, dir, recursive, {}, root.files)

(***************************************************************************)
(* separateImageFiles                                                      *)
(***************************************************************************)
IsHeic(file) ==
    LET ext == Ext(ToLower(file))
    IN  ext = <<".", "h", "e", "i", "c">> \/ ext = <<".", "h", "e", "i", "f">>

\* mutant: the extension is compared as it is spelled
separateImageFiles_caseSensitive(fs) ==
    LET heic(f) == Ext(f) = <<".", "h", "e", "i", "c">> \/ Ext(f) = <<".", "h", "e", "i", "f">>
    IN  [heic    |-> SelectSeq(fs, heic),
         regular |-> SelectSeq(fs, LAMBDA f : ~heic(f))]

separateImageFiles(fs) ==
    [heic    |-> SelectSeq(fs, IsHeic),
     regular |-> SelectSeq(fs, LAMBDA f : ~IsHeic(f))]

(***************************************************************************)
(* validateInputs, and the format check the other build makes in its place *)
(***************************************************************************)
\* mutant: the worker count is not validated
validateInputs_anyWorkers(c, exists) ==
    IF c.outputFormat # "jpg" /\ c.outputFormat # "png" THEN "format"
    ELSE IF ~exists THEN "inputDir"
    ELSE IF c.quality < 1 \/ c.quality > 100 THEN "quality"
    ELSE IF c.maxWidth <= 0 \/ c.maxHeight <= 0 THEN "dimensions"
    ELSE "nil"

validateInputs(c, exists) ==
    IF c.outputFormat # "jpg" /\ c.outputFormat # "png" THEN "format"
    ELSE IF ~exists THEN "inputDir"
    ELSE IF c.quality < 1 \/ c.quality > 100 THEN "quality"
    ELSE IF c.maxWidth <= 0 \/ c.maxHeight <= 0 THEN "dimensions"
    ELSE IF c.workers <= 0 THEN "workers"
    ELSE "nil"

formatCheck(c) ==
    IF c.outputFormat # "jpg" /\ c.outputFormat # "png" THEN "format" ELSE "nil"

(***************************************************************************)
(* Bounds of the model and the values a run draws its inputs from.         *)
(***************************************************************************)
MaxWorkers == 2      \* the workers flag ranges over 0..MaxWorkers
MaxPoolFiles == 5    \* largest batch run against the semaphore of FixedSlots
MaxDim == 3          \* sizes 1..MaxDim are tried in resizeImage
MaxList == 3         \* longest list handed to separateImageFiles alone

FixedSlots == 4          \* make(chan struct{}, 4)
DefaultMaxWidth == 1920  \* flag "width"
DefaultMaxHeight == 1920 \* flag "height"
DefaultQuality == 85     \* flag "quality"

InDir == <<"i", "n">>
OutDir == <<".", "/", "o", "u", "t", "p", "u", "t">>   \* the flag's default

Formats == {"jpg", "png", "gif"}

\* what the file system answers: input directory there, MkdirAll succeeds,
\* os.Create succeeds in the output directory, writes may fail half way
EnvNormal   == [inputExists |-> TRUE,  mkdirOk |-> TRUE,  outWritable |-> TRUE,  ioFaulty |-> FALSE]
EnvNoInput  == [inputExists |-> FALSE, mkdirOk |-> TRUE,  outWritable |-> TRUE,  ioFaulty |-> FALSE]
EnvNoMkdir  == [inputExists |-> TRUE,  mkdirOk |-> FALSE, outWritable |-> FALSE, ioFaulty |-> FALSE]
EnvReadOnly == [inputExists |-> TRUE,  mkdirOk |-> TRUE,  outWritable |-> FALSE, ioFaulty |-> FALSE]
EnvFaulty   == [inputExists |-> TRUE,  mkdirOk |-> TRUE,  outWritable |-> TRUE,  ioFaulty |-> TRUE]
Envs == {EnvNormal, EnvNoInput, EnvNoMkdir, EnvReadOnly, EnvFaulty}

Trees == {TreeMixed, TreeRegular, TreeNoImages, TreeLocked}

Config(format, recursive, workers) ==
    [inputDir |-> InDir, outputDir |-> OutDir, outputFormat |-> format,
     maxWidth |-> DefaultMaxWidth, maxHeight |-> DefaultMaxHeight,
     quality |-> DefaultQuality, recursive |-> recursive, workers |-> workers]

\* rz and pp when no pure function is under test
NoResize == [pc |-> "off"]
NoPath == [pc |-> "off"]
NoClassify == [pc |-> "off"]

RunStart ==
    /\ pc = "validate"
    /\ files = <<>> /\ heicFiles = <<>> /\ regularFiles = <<>>
    /\ mode = "none" /\ batch = <<>> /\ next = 0
    /\ task = <<>> /\ result = <<>> /\ calls = <<>>
    /\ sem = 0 /\ wg = 0
    /\ outDir = {} /\ mkdirs = 0 /\ printed = {}

\* a run of either build over one of the small trees
InitRich ==
    /\ variant \in {"workers", "fixed"}
    /\ \E f \in Formats, r \in BOOLEAN, w \in 0..MaxWorkers :
          cfg = Config(f, r, IF variant = "workers" THEN w ELSE FixedSlots)
    /\ env \in Envs
    /\ tree \in Trees

\* a run of the build with the semaphore of FixedSlots over up to MaxPoolFiles files
InitPool ==
    /\ variant = "fixed"
    /\ cfg = Config("jpg", FALSE, FixedSlots)
    /\ env = EnvNormal
    /\ \E n \in 0..MaxPoolFiles : tree = TreePlain(n)

Init ==
    /\ InitRich \/ InitPool
    /\ RunStart
    /\ rz = NoResize
    /\ pp = NoPath
    /\ cl = NoClassify

(***************************************************************************)
(* runProcess                                                              *)
(***************************************************************************)
pureVars == <<rz, pp, cl>>
inputVars == <<variant, cfg, env, tree>>
schedVars == <<mode, batch, next, task, result, calls, sem, wg>>

\* validateInputs (or the format check), os.Exit(1) on an error
Validate ==
    /\ pc = "validate"
    /\ LET err == IF variant = "workers" THEN validateInputs(cfg, env.inputExists)
                  ELSE formatCheck(cfg)
       IN  IF err # "nil"
           THEN pc' = "exit1" /\ printed' = printed \cup {"validation failed: " \o err}
           ELSE pc' = "mkdir" /\ printed' = printed
    /\ UNCHANGED <<inputVars, files, heicFiles, regularFiles, schedVars, outDir,
                   mkdirs, pureVars>>

\* mutant: a failure of os.MkdirAll is reported and the run goes on
Mkdir_ignoreError ==
    /\ pc = "mkdir"
    /\ mkdirs' = mkdirs + 1
    /\ pc' = "scan"
    /\ printed' = IF env.mkdirOk THEN printed
                  ELSE printed \cup {"failed to create output directory"}
    /\ UNCHANGED <<inputVars, files, heicFiles, regularFiles, schedVars, outDir,
                   pureVars>>

\* os.MkdirAll(outputDir, 0755)
Mkdir ==
    /\ pc = "mkdir"
    /\ mkdirs' = mkdirs + 1
    /\ IF env.mkdirOk
       THEN pc' = "scan" /\ printed' = printed
       ELSE pc' = "exit1" /\ printed' = printed \cup {"failed to create output directory"}
    /\ UNCHANGED <<inputVars, files, heicFiles, regularFiles, schedVars, outDir,
                   pureVars>>

\* mutant: the error of getImageFiles is reported and the run goes on
Scan_ignoreError ==
    /\ pc = "scan"
    /\ LET got == getImageFiles(cfg.inputDir, cfg.recursive, env.inputExists, tree)
       IN  /\ files' = got.files
           /\ pc' = IF Len(got.files) = 0 THEN "done" ELSE "separate"
           /\ printed' = printed \cup
                 (IF got.err THEN {"failed to scan image files"} ELSE {}) \cup
                 (IF Len(got.files) = 0 THEN {"No image files found"} ELSE {})
    /\ UNCHANGED <<inputVars, heicFiles, regularFiles, schedVars, outDir, mkdirs,
                   pureVars>>

\* getImageFiles and the return on an empty listing
Scan ==
    /\ pc = "scan"
    /\ LET got == getImageFiles(cfg.inputDir, cfg.recursive, env.inputExists, tree)
       IN  IF got.err
           THEN /\ pc' = "exit1"
                /\ files' = got.files
                /\ printed' = printed \cup {"failed to scan image files"}
           ELSE IF Len(got.files) = 0
           THEN /\ pc' = "done"
                /\ files' = got.files
                /\ printed' = printed \cup {"No image files found"}
           ELSE /\ pc' = "separate"
                /\ files' = got.files
                /\ printed' = printed
    /\ UNCHANGED <<inputVars, heicFiles, regularFiles, schedVars, outDir, mkdirs,
                   pureVars>>

\* mutant: with HEIC files present only they are converted
Separate_heicOnly ==
    /\ pc = "separate"
    /\ LET sep == separateImageFiles(files)
           b   == IF Len(sep.heic) > 0 THEN sep.heic ELSE sep.regular
       IN  /\ heicFiles' = sep.heic
           /\ regularFiles' = sep.regular
           /\ mode' = IF Len(sep.heic) > 0 THEN "convert" ELSE "same"
           /\ batch' = b
           /\ task' = [i \in 1..Len(b) |-> "none"]
           /\ result' = [i \in 1..Len(b) |-> "none"]
           /\ calls' = [i \in 1..Len(b) |-> <<>>]
           /\ pc' = IF Len(b) = 0 THEN "wait" ELSE "dispatch"
    /\ next' = 1
    /\ sem' = 0
    /\ wg' = 0
    /\ UNCHANGED <<inputVars, files, outDir, mkdirs, printed, pureVars>>

\* separateImageFiles, the choice of the scheduler, and the scheduler's entry
Separate ==
    /\ pc = "separate"
    /\ LET sep == separateImageFiles(files)
           b   == IF Len(sep.heic) > 0 THEN files ELSE sep.regular
       IN  /\ heicFiles' = sep.heic
           /\ regularFiles' = sep.regular
           /\ mode' = IF Len(sep.heic) > 0 THEN "convert" ELSE "same"
           /\ batch' = b
           /\ task' = [i \in 1..Len(b) |-> "none"]
           /\ result' = [i \in 1..Len(b) |-> "none"]
           /\ calls' = [i \in 1..Len(b) |-> <<>>]
           /\ pc' = IF Len(b) = 0 THEN "wait" ELSE "dispatch"
    /\ next' = 1
    /\ sem' = 0
    /\ wg' = 0
    /\ UNCHANGED <<inputVars, files, outDir, mkdirs, printed, pureVars>>

(***************************************************************************)
(* processImagesConcurrently / processImagesWithSameFormat                 *)
(***************************************************************************)
\* capacity of the semaphore channel
semaphoreCap == IF variant = "workers" THEN cfg.workers ELSE FixedSlots

\* one turn of the loop: wg.Add(1); go func(filePath)
Spawn ==
    /\ pc = "dispatch"
    /\ next <= Len(batch)
    /\ wg' = wg + 1
    /\ task' = [task EXCEPT ![next] = "pending"]
    /\ next' = next + 1
    /\ pc' = IF next = Len(batch) THEN "wait" ELSE "dispatch"
    /\ UNCHANGED <<inputVars, files, heicFiles, regularFiles, mode, batch, result,
                   calls, sem, outDir, mkdirs, printed, pureVars>>

\* mutant: the send on the semaphore never blocks
Acquire_noLimit(i) ==
    /\ task[i] = "pending"
    /\ sem' = sem + 1
    /\ task' = [task EXCEPT ![i] = "running"]
    /\ UNCHANGED <<inputVars, pc, files, heicFiles, regularFiles, mode, batch, next,
                   result, calls, wg, outDir, mkdirs, printed, pureVars>>

\* semaphore <- struct{}{}: blocks while the channel is full
Acquire(i) ==
    /\ task[i] = "pending"
    /\ sem < semaphoreCap
    /\ sem' = sem + 1
    /\ task' = [task EXCEPT ![i] = "running"]
    /\ UNCHANGED <<inputVars, pc, files, heicFiles, regularFiles, mode, batch, next,
                   result, calls, wg, outDir, mkdirs, printed, pureVars>>

\* the entry of its input in the tree
EntryOf(file) ==
    tree[CHOOSE k \in 1..Len(tree) : WalkPath(cfg.inputDir, tree[k].rel) = file]

\* how the per-file function can end here: "decode" (loadImage fails),
\* "create" (os.Create fails), "encode" (the encoder's write fails), "ok"
Outcomes ==
    {"decode"} \cup
    IF ~env.outWritable THEN {"create"}
    ELSE {"ok"} \cup (IF env.ioFaulty THEN {"encode"} ELSE {})

\* the file saveImage leaves at path: created empty, then encoded into
Written(path, format, from, size, whole) ==
    [path |-> path, encoder |-> saveEncoder(format), from |-> from,
     w |-> size.w, h |-> size.h, quality |-> cfg.quality, whole |-> whole]

\* the output directory after saveImage ran for one input
Saved(dir, file) == {f \in dir : f.path # file.path} \cup {file}

\* ProcessImage on file, ending in outcome: the output directory afterwards
ProcessImage(file, outcome) ==
    LET img  == EntryOf(file)
        size == resizeImage(img.w, img.h, cfg.maxWidth, cfg.maxHeight)
        path == generateOutputPath(file, cfg.outputDir, cfg.outputFormat)
    IN  IF outcome \in {"decode", "create"} THEN outDir
        ELSE Saved(outDir, Written(path, cfg.outputFormat, file, size, outcome = "ok"))

\* ProcessImageWithSameFormat on file, ending in outcome
ProcessImageWithSameFormat(file, outcome) ==
    LET img  == EntryOf(file)
        size == resizeImage(img.w, img.h, cfg.maxWidth, cfg.maxHeight)
        path == generateOutputPathWithSameFormat(file, cfg.outputDir)
    IN  IF outcome \in {"decode", "create"} THEN outDir
        ELSE Saved(outDir, Written(path, sameFormat(file), file, size, outcome = "ok"))

\* mutant: a failed file ends the process, as a fatal error does
Process_exitOnError(i) ==
    /\ task[i] = "running"
    /\ \E outcome \in Outcomes :
          /\ outDir' = IF mode = "convert"
                       THEN ProcessImage(batch[i], outcome)
                       ELSE ProcessImageWithSameFormat(batch[i], outcome)
          /\ result' = [result EXCEPT ![i] = IF outcome = "ok" THEN "ok" ELSE "failed"]
          /\ pc' = IF outcome = "ok" THEN pc ELSE "exit1"
    /\ calls' = [calls EXCEPT ![i] = Append(@, IF mode = "convert" THEN "ProcessImage"
                                               ELSE "ProcessImageWithSameFormat")]
    /\ task' = [task EXCEPT ![i] = "returned"]
    /\ UNCHANGED <<inputVars, files, heicFiles, regularFiles, mode, batch, next,
                   sem, wg, mkdirs, printed, pureVars>>

\* mutant: a failed file is tried again
Process_retry(i) ==
    /\ task[i] = "running"
    /\ Len(calls[i]) < 2
    /\ \E outcome \in Outcomes :
          /\ outDir' = IF mode = "convert"
                       THEN ProcessImage(batch[i], outcome)
                       ELSE ProcessImageWithSameFormat(batch[i], outcome)
          /\ IF outcome = "ok" \/ Len(calls[i]) = 1
             THEN /\ result' = [result EXCEPT ![i] = IF outcome = "ok" THEN "ok"
                                                     ELSE "failed"]
                  /\ task' = [task EXCEPT ![i] = "returned"]
             ELSE UNCHANGED <<result, task>>
    /\ calls' = [calls EXCEPT ![i] = Append(@, IF mode = "convert" THEN "ProcessImage"
                                               ELSE "ProcessImageWithSameFormat")]
    /\ UNCHANGED <<inputVars, pc, files, heicFiles, regularFiles, mode, batch, next,
                   sem, wg, mkdirs, printed, pureVars>>

\* the goroutine's call of the per-file function and the line it prints
Process(i) ==
    /\ task[i] = "running"
    /\ task' = [task EXCEPT ![i] = "returned"]
    /\ calls' = [calls EXCEPT ![i] = Append(@, IF mode = "convert" THEN "ProcessImage"
                                               ELSE "ProcessImageWithSameFormat")]
    /\ \E outcome \in Outcomes :
          /\ result' = [result EXCEPT ![i] = IF outcome = "ok" THEN "ok" ELSE "failed"]
          /\ outDir' = IF mode = "convert"
                       THEN ProcessImage(batch[i], outcome)
                       ELSE ProcessImageWithSameFormat(batch[i], outcome)
    /\ UNCHANGED <<inputVars, pc, files, heicFiles, regularFiles, mode, batch, next,
                   sem, wg, mkdirs, printed, pureVars>>

\* mutant: the slot is given back after a success only
Release_onSuccessOnly(i) ==
    /\ task[i] = "returned"
    /\ sem' = IF result[i] = "ok" THEN sem - 1 ELSE sem
    /\ task' = [task EXCEPT ![i] = "released"]
    /\ UNCHANGED <<inputVars, pc, files, heicFiles, regularFiles, mode, batch, next,
                   result, calls, wg, outDir, mkdirs, printed, pureVars>>

\* defer func() { <-semaphore }()
Release(i) ==
    /\ task[i] = "returned"
    /\ sem > 0
    /\ sem' = sem - 1
    /\ task' = [task EXCEPT ![i] = "released"]
    /\ UNCHANGED <<inputVars, pc, files, heicFiles, regularFiles, mode, batch, next,
                   result, calls, wg, outDir, mkdirs, printed, pureVars>>

\* defer wg.Done()
Done(i) ==
    /\ task[i] = "released"
    /\ wg' = wg - 1
    /\ task' = [task EXCEPT ![i] = "done"]
    /\ UNCHANGED <<inputVars, pc, files, heicFiles, regularFiles, mode, batch, next,
                   result, calls, sem, outDir, mkdirs, printed, pureVars>>

\* mutant: the scheduler returns without waiting
Wait_noBarrier ==
    /\ pc = "wait"
    /\ pc' = "done"
    /\ printed' = printed \cup {"All images processed!"}
    /\ UNCHANGED <<inputVars, files, heicFiles, regularFiles, schedVars, outDir,
                   mkdirs, pureVars>>

\* wg.Wait() returns, the scheduler returns, runProcess prints and returns
Wait ==
    /\ pc = "wait"
    /\ wg = 0
    /\ pc' = "done"
    /\ printed' = printed \cup {"All images processed!"}
    /\ UNCHANGED <<inputVars, files, heicFiles, regularFiles, schedVars, outDir,
                   mkdirs, pureVars>>

Tasks == 1..Len(batch)

Next ==
    \/ Validate
    \/ Mkdir
    \/ Scan
    \/ Separate
    \/ Spawn
    \/ \E i \in Tasks : Acquire(i)
    \/ \E i \in Tasks : Process(i)
    \/ \E i \in Tasks : Release(i)
    \/ \E i \in Tasks : Done(i)
    \/ Wait

Spec == Init /\ [][Next]_vars

(***************************************************************************)
(* SpecResize: resizeImage applied to one image and one bounding box.      *)
(***************************************************************************)
SrcSizes == 1..MaxDim \cup {22, 50, 66, 100}
BoxSizes == 1..MaxDim \cup {15, 25, 40, 50, 100, 200}

\* no run of the command is going on
RunOff ==
    /\ variant = "workers"
    /\ cfg = Config("jpg", FALSE, FixedSlots)
    /\ env = EnvNormal
    /\ tree = <<>>
    /\ pc = "off"
    /\ files = <<>> /\ heicFiles = <<>> /\ regularFiles = <<>>
    /\ mode = "none" /\ batch = <<>> /\ next = 0
    /\ task = <<>> /\ result = <<>> /\ calls = <<>>
    /\ sem = 0 /\ wg = 0
    /\ outDir = {} /\ mkdirs = 0 /\ printed = {}

InitResize ==
    /\ RunOff
    /\ pp = NoPath
    /\ cl = NoClassify
    /\ \E w \in SrcSizes, h \in SrcSizes, mw \in BoxSizes, mh \in BoxSizes :
          rz = [pc |-> "ready", width |-> w, height |-> h,
                maxWidth |-> mw, maxHeight |-> mh,
                resized |-> FALSE, newWidth |-> 0, newHeight |-> 0]

ResizeCall ==
    /\ rz.pc = "ready"
    /\ LET r == resizeImage(rz.width, rz.height, rz.maxWidth, rz.maxHeight)
       IN  rz' = [rz EXCEPT !.pc = "done", !.resized = r.resized,
                            !.newWidth = r.w, !.newHeight = r.h]
    /\ UNCHANGED <<runVars, pp, cl>>

NextResize == ResizeCall

SpecResize == InitResize /\ [][NextResize]_vars

(***************************************************************************)
(* SpecPath: the output path functions applied to one input path.          *)
(***************************************************************************)
PathInputs ==
    { <<"/", "x", "/", "y", "/", "i", "m", "a", "g", "e", ".", "j", "p", "e", "g">>,
      <<"/", "x", "/", "y", "/", "i", "m", "a", "g", "e", ".", "P", "N", "G">>,
      <<"i", "m", "a", "g", "e", ".", "j", "p", "g">>,
      <<"i", "n", "/", "s", "u", "b", "/", "b", ".", "T", "i", "f", "f">>,
      <<"i", "n", "/", "a", ".", "v", "2", ".", "t", "i", "f">>,
      <<"p", ".", "d", "/", "n", "o", "e", "x", "t">>,
      <<"i", "n", "/", ".", "b", "m", "p">>,
      <<"i", "n", "/", "c", ".", "b", "m", "p">>,
      <<"x", ".", "H", "E", "I", "C">>,
      <<"i", "n", "/", "a", ".", "h", "e", "i", "f">>,
      <<"i", "n", "/", "d", ".", "J", "P", "G">> }

OutputDirs ==
    { OutDir,
      <<"/", "o", "u", "t">>,
      <<"o", "u", "t", "/", "s", "m", "a", "l", "l">> }

PathFormats == {"jpg", "png", "gif", "jpeg"}

InitPath ==
    /\ RunOff
    /\ rz = NoResize
    /\ cl = NoClassify
    /\ \E p \in PathInputs, d \in OutputDirs, f \in PathFormats :
          pp = [pc |-> "ready", inputPath |-> p, outputDir |-> d, format |-> f,
                outputPath |-> <<>>, saveFormat |-> "", encoder |-> ""]

\* the path and the format ProcessImage saves under
PathConvert ==
    /\ pp.pc = "ready"
    /\ pp' = [pp EXCEPT !.pc = "converted",
                        !.outputPath = generateOutputPath(pp.inputPath, pp.outputDir,
                                                          pp.format),
                        !.saveFormat = pp.format,
                        !.encoder = saveEncoder(pp.format)]
    /\ UNCHANGED <<runVars, rz, cl>>

\* the path and the format ProcessImageWithSameFormat saves under
PathSame ==
    /\ pp.pc = "ready"
    /\ pp' = [pp EXCEPT !.pc = "same",
                        !.outputPath = generateOutputPathWithSameFormat(pp.inputPath,
                                                                        pp.outputDir),
                        !.saveFormat = sameFormat(pp.inputPath),
                        !.encoder = saveEncoder(sameFormat(pp.inputPath))]
    /\ UNCHANGED <<runVars, rz, cl>>

NextPath == PathConvert \/ PathSame

SpecPath == InitPath /\ [][NextPath]_vars

(***************************************************************************)
(* SpecClassify: separateImageFiles applied to one list of paths.          *)
(***************************************************************************)
ClassifyPaths ==
    { <<"a", ".", "H", "E", "I", "C">>,
      <<"i", "n", "/", "b", ".", "h", "e", "i", "f">>,
      <<"c", ".", "j", "p", "g">>,
      <<"h", "e", "i", "c">>,
      <<"d", ".", "h", "e", "i", "c", ".", "p", "n", "g">> }

ClassifyLists == UNION {[1..n -> ClassifyPaths] : n \in 0..MaxList}

InitClassify ==
    /\ RunOff
    /\ rz = NoResize
    /\ pp = NoPath
    /\ \E fs \in ClassifyLists :
          cl = [pc |-> "ready", given |-> fs, files |-> fs,
                heicFiles |-> <<>>, regularFiles |-> <<>>]

\* heicFiles, regularFiles := separateImageFiles(files); files is only read
ClassifyCall ==
    /\ cl.pc = "ready"
    /\ LET sep == separateImageFiles(cl.files)
       IN  cl' = [cl EXCEPT !.pc = "done", !.heicFiles = sep.heic,
                            !.regularFiles = sep.regular]
    /\ UNCHANGED <<runVars, rz, pp>>

NextClassify == ClassifyCall

SpecClassify == InitClassify /\ [][NextClassify]_vars

(***************************************************************************)
(* SpecValidate: runs of the build with validateInputs over one file, the  *)
(* flags drawn from values on both sides of every limit validateInputs     *)
(* tests.                                                                  *)
(***************************************************************************)
QualityValues == {0, 1, 100, 101}
WidthValues == {-1, 0, 1, DefaultMaxWidth}
HeightValues == {0, 1, DefaultMaxHeight}
WorkerValues == -1..MaxWorkers

InitValidate ==
    /\ variant = "workers"
    /\ \E f \in Formats, q \in QualityValues, mw \in WidthValues,
          mh \in HeightValues, w \in WorkerValues :
          cfg = [Config(f, FALSE, w) EXCEPT !.quality = q, !.maxWidth = mw,
                                            !.maxHeight = mh]
    /\ env \in {EnvNormal, EnvNoInput}
    /\ tree = TreePlain(1)
    /\ RunStart
    /\ rz = NoResize
    /\ pp = NoPath
    /\ cl = NoClassify

SpecValidate == InitValidate /\ [][Next]_vars

(***************************************************************************)
(* Fairness: the Go runtime keeps running some runnable goroutine, and     *)
(* every per-file call returns, so while a step of the scheduler or of one *)
(* of its goroutines is possible, one is taken.                            *)
(***************************************************************************)
PoolStep ==
    \/ Spawn
    \/ \E i \in Tasks : Acquire(i)
    \/ \E i \in Tasks : Process(i)
    \/ \E i \in Tasks : Release(i)
    \/ \E i \in Tasks : Done(i)
    \/ Wait

FairSpec == Spec /\ WF_vars(PoolStep)

(***************************************************************************)
(* Properties of the scheduler                                             *)
(***************************************************************************)
Holding == {i \in Tasks : task[i] \in {"running", "returned"}}
Entered == mode # "none"
Returned == pc = "done" /\ Entered

\* the state of a task in the terms Pending, Running, Succeeded, Failed
StateOf(t, r) ==
    IF t \in {"none", "pending"} THEN "Pending"
    ELSE IF t = "running" THEN "Running"
    ELSE IF r = "ok" THEN "Succeeded"
    ELSE "Failed"

TaskState(i) == StateOf(task[i], result[i])

\* C1: at every instant at most K tasks hold a semaphore slot, K being the
\* configured worker count (4 in the build that has no workers flag).
C1_AtMostKInFlight == Cardinality(Holding) <= cfg.workers

C1_Witness ==
    /\ variant = "fixed"
    /\ Cardinality(Holding) = cfg.workers
    /\ \E i \in Tasks : task[i] = "pending"

\* C2: the scheduler has returned and "All images processed!" is printed only
\* when every dispatched task has finished, Succeeded or Failed.
C2_EndOfBatchBarrier ==
    (Returned \/ "All images processed!" \in printed) =>
        /\ Len(task) = Len(batch)
        /\ \A i \in Tasks : /\ task[i] = "done"
                            /\ TaskState(i) \in {"Succeeded", "Failed"}

C2_Witness ==
    /\ "All images processed!" \in printed
    /\ Len(batch) >= 3
    /\ \A i \in Tasks : task[i] = "done"

\* C3: a task's failure neither aborts the run (no exit status 1 once a task
\* has failed) nor keeps another task from being run to its end: when the
\* scheduler has returned next to failed tasks, every other task was run too.
C3_FailureIsolation ==
    (\E i \in Tasks : result[i] = "failed") =>
        /\ pc # "exit1"
        /\ pc = "done" =>
              \A j \in Tasks : Len(calls[j]) = 1 /\ result[j] \in {"ok", "failed"}

C3_Witness ==
    /\ pc = "done"
    /\ \E i, j \in Tasks : result[i] = "failed" /\ result[j] = "ok"

\* C4: under fair scheduling, once the scheduler is entered every task gets a
\* slot and ends, and the scheduler returns, whichever tasks fail.
C4_NoPoolDeadlock ==
    Entered ~> (pc = "done" /\ \A i \in Tasks : task[i] = "done")

C4_Witness ==
    /\ pc = "done"
    /\ Len(batch) > semaphoreCap
    /\ \A i \in Tasks : result[i] = "failed"

\* C5: every discovered file is one task; a task only moves Pending -> Running
\* -> Succeeded or Failed, the last two for good; and the per-file function has
\* been called once for a task that ended and not at all for one that has not.
C5_Step ==
    /\ Len(task') = Len(batch') /\ Len(result') = Len(batch')
    /\ Len(calls') = Len(batch')
    /\ mode' # "none" => batch' = files'
    /\ \A i \in 1..Len(task') :
          LET before == IF i \in DOMAIN task THEN TaskState(i) ELSE "Pending"
              after  == StateOf(task'[i], result'[i])
          IN  /\ \/ after = before
                 \/ before = "Pending" /\ after = "Running"
                 \/ before = "Running" /\ after \in {"Succeeded", "Failed"}
              /\ Len(calls'[i]) = IF after \in {"Succeeded", "Failed"} THEN 1 ELSE 0

C5_TaskStateMachine == [][C5_Step]_vars

C5_Witness ==
    /\ Len(batch) >= 2
    /\ TaskState(1) = "Failed" /\ task[1] = "done"
    /\ TaskState(2) = "Running"

\* C6: with a .heic/.heif file among the discovered files every file is
\* processed by ProcessImage, without one every file is processed by
\* ProcessImageWithSameFormat; the files processed are the files discovered.
EndsWithFold(file, suffix) ==
    /\ Len(file) >= Len(suffix)
    /\ ToLower(SubSeq(file, Len(file) - Len(suffix) + 1, Len(file))) = suffix

AnyHeic ==
    \E k \in 1..Len(files) :
        \/ EndsWithFold(files[k], <<".", "h", "e", "i", "c">>)
        \/ EndsWithFold(files[k], <<".", "h", "e", "i", "f">>)

C6_GlobalModeDecision ==
    Entered =>
        /\ LET fn == IF AnyHeic THEN "ProcessImage" ELSE "ProcessImageWithSameFormat"
           IN  \A i \in Tasks : \A k \in 1..Len(calls[i]) : calls[i][k] = fn
        /\ Len(batch) = Len(files)
        /\ \A k \in 1..Len(files) : batch[k] = files[k]
        /\ pc = "done" => \A k \in 1..Len(files) : Len(calls[k]) = 1

C6_Witness ==
    /\ pc = "done"
    /\ AnyHeic
    /\ \E i \in Tasks : /\ ~EndsWithFold(batch[i], <<".", "h", "e", "i", "c">>)
                        /\ calls[i] = <<"ProcessImage">>

(***************************************************************************)
(* Properties of resizeImage                                               *)
(***************************************************************************)
\* the target size in exact arithmetic: scale = min(maxWidth/width,
\* maxHeight/height), floor(width * scale), floor(height * scale)
RefTargetSize(w, h, mw, mh) ==
    IF w <= mw /\ h <= mh THEN <<w, h>>
    ELSE IF mw * h <= mh * w THEN <<mw, (h * mw) \div w>>
    ELSE <<(w * mh) \div h, mh>>

\* C7: the size resizeImage computes is the reference size for all positive
\* width, height, maxWidth, maxHeight.
C7_TargetSizeIsReference ==
    rz.pc = "done" =>
        <<rz.newWidth, rz.newHeight>> =
            RefTargetSize(rz.width, rz.height, rz.maxWidth, rz.maxHeight)

Abs(n) == IF n < 0 THEN 0 - n ELSE n
Max(a, b) == IF a < b THEN b ELSE a

\* C8: when a resize is needed the computed size fits the box, is no larger
\* than the image, and keeps the aspect ratio up to truncation:
\* |w' * h - h' * w| < max(w, h).
C8_FitsBoxKeepsRatio ==
    (rz.pc = "done" /\ (rz.width > rz.maxWidth \/ rz.height > rz.maxHeight)) =>
        /\ rz.newWidth <= rz.maxWidth /\ rz.newHeight <= rz.maxHeight
        /\ rz.newWidth <= rz.width /\ rz.newHeight <= rz.height
        /\ Abs(rz.newWidth * rz.height - rz.newHeight * rz.width)
              < Max(rz.width, rz.height)

(***************************************************************************)
(* Properties of the output path and format                                *)
(***************************************************************************)
\* what follows the last separator
RefBase(p) ==
    LET k == CHOOSE k \in 0..Len(p) :
                 /\ \A j \in (k + 1)..Len(p) : p[j] # Sep
                 /\ (k = 0 \/ p[k] = Sep)
    IN  SubSeq(p, k + 1, Len(p))

\* what precedes the last dot of a name, the whole name without a dot
RefStem(b) ==
    IF \A j \in 1..Len(b) : b[j] # Dot THEN b
    ELSE LET k == CHOOSE k \in 1..Len(b) :
                      b[k] = Dot /\ \A j \in (k + 1)..Len(b) : b[j] # Dot
         IN  SubSeq(b, 1, k - 1)

\* a directory as filepath.Join spells it: without a leading "./"
RefDir(d) ==
    IF Len(d) >= 2 /\ d[1] = Dot /\ d[2] = Sep THEN SubSeq(d, 3, Len(d)) ELSE d

TargetExt(format) ==
    IF format = "png" THEN <<"p", "n", "g">> ELSE <<"j", "p", "g">>

\* C9: generateOutputPath returns outputDir/<basename without its last
\* extension>.<ext>, ext being png for format png and jpg for every other
\* format; generateOutputPathWithSameFormat returns outputDir/<basename>
\* verbatim.  (outputDir as filepath.Join spells it.)
C9_OutputPath ==
    /\ pp.pc = "converted" =>
          pp.outputPath = RefDir(pp.outputDir) \o <<Sep>>
                            \o RefStem(RefBase(pp.inputPath)) \o <<Dot>>
                            \o TargetExt(pp.format)
    /\ pp.pc = "same" =>
          pp.outputPath = RefDir(pp.outputDir) \o <<Sep>> \o RefBase(pp.inputPath)

C9_Witness ==
    /\ pp.pc = "converted"
    /\ pp.format = "gif"
    /\ pp.outputDir = OutDir
    /\ pp.inputPath = <<"i", "n", "/", "a", ".", "v", "2", ".", "t", "i", "f">>
    /\ pp.outputPath = <<"o", "u", "t", "p", "u", "t", "/", "a", ".", "v", "2",
                         ".", "j", "p", "g">>

\* the encoder of the format an input's extension names
MirrorEncoder(file) ==
    IF EndsWithFold(file, <<".", "p", "n", "g">>) THEN "png"
    ELSE IF EndsWithFold(file, <<".", "b", "m", "p">>) THEN "bmp"
    ELSE IF \/ EndsWithFold(file, <<".", "t", "i", "f", "f">>)
            \/ EndsWithFold(file, <<".", "t", "i", "f">>) THEN "tiff"
    ELSE "jpeg"

\* C10: in preserving mode the output is encoded in the format of the input's
\* extension (jpg/jpeg, png, bmp, tiff/tif), whatever OutputFormat is.
C10_MirrorsInputFormat ==
    mode = "same" => \A f \in outDir : f.encoder = MirrorEncoder(f.from)

(***************************************************************************)
(* Properties of discovery, classification and validation                  *)
(***************************************************************************)
\* getImageFiles has returned in this run
Scanned ==
    \/ pc \in {"separate", "dispatch", "wait", "done"} /\ mkdirs > 0
    \/ "failed to scan image files" \in printed

ScanFailed == "failed to scan image files" \in printed

\* the entries of the tree that discovery is to return: files with an image
\* extension, directly in the root unless recursive
Wanted ==
    {i \in 1..Len(tree) :
        /\ ~tree[i].dir
        /\ \E e \in ImageExts : EndsWithFold(tree[i].rel, e)
        /\ cfg.recursive \/ \A k \in 1..Len(tree[i].rel) : tree[i].rel[k] # Sep}

\* C11: for an existing root, getImageFiles returns exactly the wanted files,
\* each once, and in non-recursive mode the subdirectories it skips cause no
\* error.
C11_Discovery ==
    (Scanned /\ env.inputExists) =>
        /\ ~cfg.recursive => ~ScanFailed
        /\ ~ScanFailed =>
              /\ Len(files) = Cardinality(Wanted)
              /\ \A i \in Wanted :
                    \E k \in 1..Len(files) :
                        files[k] = cfg.inputDir \o <<Sep>> \o tree[i].rel
              /\ \A k, m \in 1..Len(files) : files[k] = files[m] => k = m

\* a path of the HEIC family, by its name
HeicLike(p) ==
    \/ EndsWithFold(p, <<".", "h", "e", "i", "c">>)
    \/ EndsWithFold(p, <<".", "h", "e", "i", "f">>)

Count(seq, p) == Cardinality({k \in 1..Len(seq) : seq[k] = p})

\* sub is seq with some elements left out, the others in their order
IsSubsequence(sub, seq) ==
    \E f \in [1..Len(sub) -> 1..Len(seq)] :
        /\ \A k \in 1..Len(sub) : seq[f[k]] = sub[k]
        /\ \A k, m \in 1..Len(sub) : k < m => f[k] < f[m]

\* C12: separateImageFiles splits its list in two: heic holds exactly the
\* .heic/.heif paths, regular the others, every path with its multiplicity,
\* both in the order of the list, and the list itself is left as it was.
C12_Partition ==
    cl.pc = "done" =>
        /\ \A k \in 1..Len(cl.heicFiles) : HeicLike(cl.heicFiles[k])
        /\ \A k \in 1..Len(cl.regularFiles) : ~HeicLike(cl.regularFiles[k])
        /\ \A p \in ClassifyPaths :
              Count(cl.given, p) = Count(cl.heicFiles, p) + Count(cl.regularFiles, p)
        /\ Len(cl.given) = Len(cl.heicFiles) + Len(cl.regularFiles)
        /\ IsSubsequence(cl.heicFiles, cl.given)
        /\ IsSubsequence(cl.regularFiles, cl.given)
        /\ cl.files = cl.given

C12_Witness ==
    /\ cl.pc = "done"
    /\ cl.given = << <<"c", ".", "j", "p", "g">>, <<"a", ".", "H", "E", "I", "C">>,
                     <<"a", ".", "H", "E", "I", "C">> >>
    /\ cl.heicFiles = << <<"a", ".", "H", "E", "I", "C">>,
                         <<"a", ".", "H", "E", "I", "C">> >>
    /\ cl.regularFiles = << <<"c", ".", "j", "p", "g">> >>

\* what validateInputs is to reject, in the order of the checks
Rejections ==
    << [kind |-> "format",     bad |-> cfg.outputFormat \notin {"jpg", "png"}],
       [kind |-> "inputDir",   bad |-> ~env.inputExists],
       [kind |-> "quality",    bad |-> cfg.quality \notin 1..100],
       [kind |-> "dimensions", bad |-> ~(cfg.maxWidth > 0 /\ cfg.maxHeight > 0)],
       [kind |-> "workers",    bad |-> ~(cfg.workers > 0)] >>

Rejected == {k \in 1..Len(Rejections) : Rejections[k].bad}

FirstRejected == Rejections[CHOOSE k \in Rejected : \A m \in Rejected : k <= m].kind

ValidationMessages ==
    {"validation failed: " \o Rejections[k].kind : k \in 1..Len(Rejections)}

\* C13: validateInputs fails exactly when the format, the input directory, the
\* quality, the dimensions or the worker count is invalid; the run then ends
\* with exit status 1 reporting the first of these that fails, and a run with
\* none of them never reports a validation failure.
C13_Validation ==
    pc # "validate" =>
        IF Rejected = {}
        THEN printed \cap ValidationMessages = {}
        ELSE /\ pc = "exit1"
             /\ printed = {"validation failed: " \o FirstRejected}

C13_Witness ==
    /\ pc = "exit1"
    /\ cfg.outputFormat = "png" /\ env.inputExists
    /\ cfg.quality = 100 /\ cfg.maxWidth = 1
    /\ cfg.maxHeight = 0 /\ cfg.workers = 0
    /\ printed = {"validation failed: dimensions"}

(***************************************************************************)
(* Properties of the run as a whole                                        *)
(***************************************************************************)
ValidationFailed == printed \cap ValidationMessages # {}

NothingDispatched ==
    /\ mode = "none" /\ batch = <<>>
    /\ task = <<>> /\ calls = <<>> /\ result = <<>>
    /\ sem = 0 /\ wg = 0
    /\ outDir = {}

\* C14: a run whose validation fails or whose discovery returns an error ends
\* with exit status 1 without a scheduler entered, a task started or a
\* per-file function called; validation comes first: nothing has been done
\* while it is pending, and nothing at all when it fails.
C14_FatalBeforeDispatch ==
    /\ (ValidationFailed \/ ScanFailed) => (pc = "exit1" /\ NothingDispatched)
    /\ (pc = "validate" \/ ValidationFailed) =>
          (mkdirs = 0 /\ files = <<>> /\ NothingDispatched)

C14_Witness ==
    /\ ScanFailed
    /\ pc = "exit1"
    /\ Len(files) > 0
    /\ NothingDispatched

\* the output path the per-file function of the run's mode computes
OutputPathOf(file) ==
    IF mode = "convert"
    THEN generateOutputPath(file, cfg.outputDir, cfg.outputFormat)
    ELSE generateOutputPathWithSameFormat(file, cfg.outputDir)

Succeeded == {i \in Tasks : result[i] = "ok"}

\* C15: after the run the output directory holds as many files as tasks
\* succeeded, and no two tasks of the batch have the same output path.
C15_OneOutputPerSuccess ==
    Returned =>
        /\ \A i, j \in Tasks :
              i # j => OutputPathOf(batch[i]) # OutputPathOf(batch[j])
        /\ Cardinality({f \in outDir : f.whole}) = Cardinality(Succeeded)

\* the tokens in the semaphore are the tasks between their send and receive
SlotsMatch ==
    /\ sem = Cardinality(Holding)
    /\ Returned => sem = 0

\* C16: the semaphore holds one token per task that acquired and has not yet
\* released; a task gives its token back once, after its per-file call has
\* returned with either result and before it is counted done; and the
\* semaphore is empty when the scheduler has returned.
C16_Step ==
    /\ SlotsMatch'
    /\ \A i \in Tasks :
          /\ (task[i] = "running" /\ task'[i] # "running") =>
                (task'[i] = "returned" /\ sem' = sem)
          /\ (task[i] = "returned" /\ task'[i] # "returned") =>
                (task'[i] = "released" /\ sem' = sem - 1 /\ result'[i] = result[i])
          /\ (task[i] = "released" /\ task'[i] # "released") =>
                (task'[i] = "done" /\ sem' = sem /\ wg' = wg - 1)
          /\ (task[i] # "done" /\ task'[i] = "done") => task[i] = "released"
    /\ sem' < sem =>
          Cardinality({i \in Tasks : task[i] = "returned" /\ task'[i] = "released"}) = 1

C16_SlotAccounting == SlotsMatch /\ [][C16_Step]_vars

C16_Witness ==
    /\ sem = 2 /\ Cardinality(Holding) = 2
    /\ \E i, j \in Tasks : /\ task[i] = "released" /\ result[i] = "failed"
                           /\ task[j] = "done" /\ result[j] = "ok"

MkdirFailed == "failed to create output directory" \in printed

\* C17: os.MkdirAll is called once, by runProcess, before a scheduler is
\* entered: every run that has a task has made the call, no step of a task
\* makes it, and a failed call ends the run with exit status 1 with nothing
\* scanned or dispatched.
C17_State ==
    /\ mkdirs <= 1
    /\ (Entered \/ Len(task) > 0) => (mkdirs = 1 /\ ~MkdirFailed)
    /\ MkdirFailed => (pc = "exit1" /\ files = <<>> /\ NothingDispatched)

C17_Step ==
    /\ C17_State'
    /\ mkdirs' # mkdirs => (pc = "mkdir" /\ files = <<>> /\ NothingDispatched)

C17_MkdirOnceBeforeTasks == C17_State /\ [][C17_Step]_vars

C17_Witness ==
    /\ mkdirs = 1
    /\ \E i, j \in Tasks : task[i] = "running" /\ task[j] = "done"

\* C18: a task that ends Failed leaves the output directory as it was: the
\* step in which its per-file call fails changes no file, and no file written
\* from that input is there afterwards.
C18_Step ==
    \A i \in Tasks :
        (task[i] = "running" /\ task'[i] = "returned" /\ result'[i] = "failed") =>
            /\ outDir' = outDir
            /\ \A f \in outDir' : f.from # batch[i]

C18_FailedTaskLeavesNoOutput == [][C18_Step]_vars

\* C19: for positive width, height, maxWidth and maxHeight, the target
\* dimensions resizeImage computes and hands to the resampler are both at
\* least 1.
C19_TargetSizePositive ==
    (/\ rz.pc = "done"
     /\ rz.width >= 1 /\ rz.height >= 1
     /\ rz.maxWidth >= 1 /\ rz.maxHeight >= 1
     /\ rz.resized) =>
        rz.newWidth >= 1 /\ rz.newHeight >= 1

====
